---- MODULE Spec2Model ----
\* Model of laba-ai-scanner: the Cluster value type and the orchestration
\* loop of clusterize_sentences (src/lib/cluster.py), the preprocessing
\* function and the analyze() run (src/lib/analyzer.py), and the Scanner
\* with its thread (src/lib/scanner.py, src/scan.py), and the query() run
\* (src/lib/querier.py).  Each component has a specification of its own; the
\* variables of the others stay idle in it.
\*
\* Strings are sequences of code points, compared as Python compares str.
\* An embedding is a numpy array object: `id` is the object's identity and
\* `val` stands for its contents.  Embeddings are vectors of more than one
\* element, so bool(x == y) on two distinct array objects raises ValueError;
\* tuple comparison skips `==` only for identical objects.
EXTENDS Integers, Sequences, FiniteSets, Bags, TLC

VARIABLES
    \* ---- Cluster construction (Cluster.__init__ called on arbitrary arguments)
    samples,        \* first argument of Cluster(...)
    core_sample,    \* second argument of Cluster(...)
    cluster,        \* the object Cluster(samples, core_sample) produced
    samples2,       \* arguments and result of a second construction
    core_sample2,
    cluster2,
    cpc,            \* "new" -> "built" -> "both"
    \* ---- clusterize_sentences
    data,           \* raw input strings
    labels,         \* est.labels_
    embeddings,     \* rows of model.encode(...)
    probabilities,  \* est.probabilities_
    est_medoids,    \* est.medoids_ (contents of the medoid vector per label)
    groups,         \* local `groups`
    medoids,        \* local `medoids`
    clusters,       \* local `clusters`
    i,              \* position of the zip iterator (next point, 1-based)
    pc,             \* "loop" -> "sort" -> "done", or "raised"
    \* ---- Cluster used as a sequence (index, describe)
    sentence_ids,   \* identity of the str object of each sample's sentence
    called,         \* the method called on `cluster` and its arguments
    returned,       \* what the call returned or raised
    \* ---- preprocess (make_preprocessing_function)
    punctuation,    \* config: the punctuation characters
    text_to_replace,\* config: the (old, new) pairs, in order
    text_to_remove, \* config: the patterns to remove
    raw,            \* the element of `data` being processed
    cleaned,        \* local `s`
    ppc,            \* the statement to run next, "yield" at the end
    \* ---- analyze (src/lib/analyzer.py)
    include_duplicates, \* config.include_duplicates
    batch,          \* number of question lists taken from the iterator
    apc,            \* "open" -> "next" -> "cluster" -> "rows" -> ... -> "finally" -> "exit"
    exc,            \* the exception in flight: "none", "error" or "interrupt"
    csvfile,        \* "none", "open" or "closed"
    ci,             \* position of `for cluster in clusters` (1-based)
    qi,             \* position of `for question in cluster` (1-based)
    file_rows,      \* rows handed to writer.writerow
    disk_rows,      \* rows that reached the output file on disk
    finished,       \* the clusters of every batch whose rows are all written
    count_total,
    count_unique,
    count_written,
    \* ---- Scanner and scan (src/lib/scanner.py), main of src/scan.py
    thread,         \* Scanner._thread: "none" or "scanner"
    stop_event,     \* Scanner._stop_event: "none" or "event"
    is_running,     \* Scanner._is_running
    event_set,      \* the flag of the Event object
    mpc,            \* statement of the main thread
    tpc,            \* statement of the scanner thread
    times_per_topic,\* config.times_per_topic
    n_topics,       \* number of topics selected in the hierarchy
    topic,          \* position of the loops over topics (1-based)
    success_times,
    attempts,       \* record_questions calls made
    recorded,       \* per topic, the successful records added to its sets
    saved,          \* save_questions calls made
    scan_raised,    \* an exception is leaving scan()
    questions,      \* local `questions`: per topic the sets q1, q2, q3
    saved_file,     \* what save_questions wrote last: per topic three lists
    \* ---- query (src/lib/querier.py)
    predefined_file,\* rows of config.predefined_filepath
    input_file,     \* rows of config.input_filepath
    predefined,     \* local `predefined`: columns before the flag -> answer
    inp,            \* input file object: "none", "open", "closed"
    out,            \* output file object: "none", "open", "closed"
    line_no,
    output_file,    \* rows written by writer.writerow
    count_predefined,
    count_queried,
    count_queried_err,
    count_ignored,
    client_calls,   \* line numbers whose question was passed to the client
    query_raised,   \* an exception is leaving query()
    upc             \* statement of query()

cvars == <<samples, core_sample, cluster, samples2, core_sample2, cluster2, cpc>>
svars == <<data, labels, embeddings, probabilities, est_medoids,
           groups, medoids, clusters, i, pc>>
qvars == <<sentence_ids, called, returned>>
vars == <<samples, core_sample, cluster, samples2, core_sample2, cluster2, cpc,
          data, labels, embeddings, probabilities, est_medoids,
          groups, medoids, clusters, i, pc,
          sentence_ids, called, returned,
          punctuation, text_to_replace, text_to_remove, raw, cleaned, ppc,
          include_duplicates, batch, apc, exc, csvfile, ci, qi, file_rows,
          disk_rows, finished, count_total, count_unique, count_written,
          thread, stop_event, is_running, event_set, mpc, tpc, times_per_topic,
          n_topics, topic, success_times, attempts, recorded, saved, scan_raised,
          questions, saved_file,
          predefined_file, input_file, predefined, inp, out, line_no,
          output_file, count_predefined, count_queried, count_queried_err,
          count_ignored, client_calls, query_raised, upc>>
uvars == <<predefined_file, input_file, predefined, inp, out, line_no,
           output_file, count_predefined, count_queried, count_queried_err,
           count_ignored, client_calls, query_raised, upc>>
tvars == <<thread, stop_event, is_running, event_set, mpc, tpc, times_per_topic,
           n_topics, topic, success_times, attempts, recorded, saved, scan_raised,
           questions, saved_file>>
avars == <<include_duplicates, batch, apc, exc, csvfile, ci, qi, file_rows,
           disk_rows, finished, count_total, count_unique, count_written>>
pvars == <<punctuation, text_to_replace, text_to_remove, raw, cleaned, ppc>>
\* What each component leaves alone.
except_svars == <<cvars, qvars, pvars, avars, tvars, uvars>>
except_cvars == <<svars, qvars, pvars, avars, tvars, uvars>>
except_qvars == <<svars, samples2, core_sample2, cluster2, pvars, avars, tvars,
                  uvars>>
except_pvars == <<svars, cvars, qvars, avars, tvars, uvars>>
except_avars == <<cvars, qvars, pvars, tvars, uvars>>
except_tvars == <<svars, cvars, qvars, pvars, avars, uvars>>
except_uvars == <<svars, cvars, qvars, pvars, avars, tvars>>

\* ------------------------------------------------------------------ bounds
MaxSamples == 3     \* longest sample list given to Cluster(...)
MaxPoints == 3     \* largest batch given to clusterize_sentences

\* ----------------------------------------------------------------- helpers
SetMin(S) == CHOOSE x \in S : \A y \in S : x <= y
SetMax(S) == CHOOSE x \in S : \A y \in S : y <= x

Range(f) == {f[k] : k \in DOMAIN f}

\* Python str.__lt__: lexicographic over code points, a proper prefix is less.
StrLt(s, t) ==
    \E k \in 1..(Len(s) + 1) :
        /\ \A j \in 1..(k - 1) : j <= Len(t) /\ s[j] = t[j]
        /\ \/ k = Len(s) + 1 /\ Len(t) >= k
           \/ k <= Len(s) /\ k <= Len(t) /\ s[k] < t[k]

\* Python tuple.__lt__ on tuples of str.
TupleLt(a, b) ==
    \E k \in 1..(Len(a) + 1) :
        /\ \A j \in 1..(k - 1) : j <= Len(b) /\ a[j] = b[j]
        /\ \/ k = Len(a) + 1 /\ Len(b) >= k
           \/ k <= Len(a) /\ k <= Len(b) /\ StrLt(a[k], b[k])

\* ------------------------------------------------------------------ Sample
Sample(sentence, embedding, probability) ==
    [sentence |-> sentence, embedding |-> embedding, probability |-> probability]

\* The placeholder `...` that fills `medoids` before the loop.
Ellipsis == [sentence |-> <<>>, embedding |-> [id |-> 0, val |-> 0], probability |-> 0]

\* `sample == core_sample`: tuple comparison, item by item, left to right.
\* Items that are the same object are equal without calling ==; the str and
\* float items compare by value; two distinct ndarray objects give an array
\* whose truth value is ambiguous, which raises.  A Sample never equals `...`.
SampleEq(sample, other) ==
    IF other = Ellipsis THEN "false"
    ELSE IF sample.sentence # other.sentence THEN "false"
    ELSE IF sample.embedding.id # other.embedding.id THEN "raise"
    ELSE IF sample.probability # other.probability THEN "false"
    ELSE "true"

\* ------------------------------------------------------------------ Cluster
core_idx == 0

\* list.insert(pos, x) with a 0-based position.
ListInsert(list, pos, x) ==
    SubSeq(list, 1, pos) \o <<x>> \o SubSeq(list, pos + 1, Len(list))

\* del list[idx] with a 0-based index.
ListDel(list, idx) ==
    SubSeq(list, 1, idx) \o SubSeq(list, idx + 2, Len(list))

\* sorted(samples, key=sentence): a stable sort, by insertion after the
\* elements whose key is not greater.
InsertByKey(list, x) ==
    ListInsert(list,
               Cardinality({k \in 1..Len(list) : ~StrLt(x.sentence, list[k].sentence)}),
               x)

sorted_notSorted(list) == list

RECURSIVE sorted(_)
sorted(list) ==
    IF list = <<>> THEN <<>>
    ELSE InsertByKey(sorted(SubSeq(list, 1, Len(list) - 1)), list[Len(list)])

\* Lines 40-42: the matching sample is moved to position _core_idx.
MoveToCore_deleteOnly(list, idx) ==
    IF idx # core_idx THEN ListDel(list, idx) ELSE list

MoveToCore(list, idx) ==
    IF idx # core_idx
    THEN ListInsert(ListDel(list, idx), core_idx, list[idx + 1])
    ELSE list

\* The outcome of a construction that raised.
ValueError == [raised |-> TRUE, strings |-> <<>>, embeddings |-> <<>>,
               probabilities |-> <<>>]

\* The object a successful construction leaves behind (lines 48-50).
MakeCluster(list) ==
    [raised |-> FALSE,
     strings |-> [k \in 1..Len(list) |-> list[k].sentence],
     embeddings |-> [k \in 1..Len(list) |-> list[k].embedding],
     probabilities |-> [k \in 1..Len(list) |-> list[k].probability]]

\* The for/else of lines 38-46 when no sample compares equal.
NoMatch_firstSample(list) ==
    IF list = <<>> THEN ValueError ELSE MakeCluster(list)

NoMatch(list) == ValueError

\* Cluster.__init__(samples, core_sample).  The loop stops at the first
\* sample whose comparison with core_sample is not False: it either
\* matches (break) or the comparison itself raises.
Cluster(smp, core) ==
    LET list == sorted(smp)
        stop == {k \in 1..Len(list) : SampleEq(list[k], core) # "false"}
    IN  IF stop = {} THEN NoMatch(list)
        ELSE LET k == SetMin(stop)
             IN  IF SampleEq(list[k], core) = "raise" THEN ValueError
                 ELSE MakeCluster(MoveToCore(list, k - 1))

\* Cluster.from_single(sentence, embedding).
from_single_zeroProbability(sentence, embedding) ==
    LET sample == Sample(sentence, embedding, 0)
    IN  Cluster(<<sample>>, sample)

from_single(sentence, embedding) ==
    LET sample == Sample(sentence, embedding, 1)
    IN  Cluster(<<sample>>, sample)

\* Cluster.core_string.
core_string_last(c) == c.strings[Len(c.strings)]

core_string(c) == c.strings[core_idx + 1]

\* Cluster.__iter__, __reversed__, __len__, __getitem__(int).
Iter(c) == c.strings

Reversed(c) == [k \in 1..Len(c.strings) |-> c.strings[Len(c.strings) + 1 - k]]

ClusterLen(c) == Len(c.strings)

GetItem(c, idx) == c.strings[idx + 1]

\* Cluster.__eq__ and Cluster.__lt__.
ClusterEq_withProbabilities(a, b) ==
    a.strings = b.strings /\ a.probabilities = b.probabilities

ClusterEq(a, b) == a.strings = b.strings

ClusterLt(a, b) == TupleLt(a.strings, b.strings)

\* ---------------------------------------------- Cluster construction: inputs
Sentences == {<<1>>, <<1, 2>>}

\* Two distinct array objects with equal contents, and one that differs.
SampleEmbeddings == {[id |-> 1, val |-> 1], [id |-> 2, val |-> 1]}

CoreEmbeddings == SampleEmbeddings \cup {[id |-> 3, val |-> 2]}

Probabilities == {0, 1}

SampleSet ==
    {Sample(s, e, p) : s \in Sentences, e \in SampleEmbeddings, p \in Probabilities}

CoreSampleSet ==
    {Sample(s, e, p) : s \in Sentences, e \in CoreEmbeddings, p \in Probabilities}

SampleSeqs == UNION {[1..n -> SampleSet] : n \in 0..MaxSamples}

Reverse(list) == [k \in 1..Len(list) |-> list[Len(list) + 1 - k]]

\* Argument lists of the second construction: the same samples, the same
\* samples presented in reverse, and the samples without the first one.
Variations(list) ==
    {list, Reverse(list)} \cup (IF list = <<>> THEN {} ELSE {Tail(list)})

NoCluster == [raised |-> FALSE, strings |-> <<>>, embeddings |-> <<>>,
              probabilities |-> <<>>]

IdleCluster ==
    /\ samples = <<>> /\ core_sample = Ellipsis /\ cluster = NoCluster
    /\ samples2 = <<>> /\ core_sample2 = Ellipsis /\ cluster2 = NoCluster
    /\ cpc = "idle"

\* query is not running.
IdleQuery ==
    /\ predefined_file = <<>> /\ input_file = <<>> /\ predefined = <<>>
    /\ inp = "none" /\ out = "none" /\ line_no = 0 /\ output_file = <<>>
    /\ count_predefined = 0 /\ count_queried = 0 /\ count_queried_err = 0
    /\ count_ignored = 0 /\ client_calls = <<>> /\ query_raised = FALSE
    /\ upc = "idle"

\* No Scanner exists.
IdleScanner ==
    /\ thread = "none" /\ stop_event = "none" /\ is_running = FALSE
    /\ event_set = FALSE /\ mpc = "idle" /\ tpc = "idle"
    /\ times_per_topic = 0 /\ n_topics = 0 /\ topic = 0 /\ success_times = 0
    /\ attempts = 0 /\ recorded = <<>> /\ saved = 0 /\ scan_raised = FALSE
    /\ questions = <<>> /\ saved_file = <<>>

\* analyze is not running.
IdleAnalyze ==
    /\ include_duplicates = FALSE /\ batch = 0 /\ apc = "idle" /\ exc = "none"
    /\ csvfile = "none" /\ ci = 0 /\ qi = 0
    /\ file_rows = <<>> /\ disk_rows = <<>> /\ finished = <<>>
    /\ count_total = 0 /\ count_unique = 0 /\ count_written = 0

\* preprocess is not running.
IdlePrep ==
    /\ punctuation = <<>> /\ text_to_replace = <<>> /\ text_to_remove = <<>>
    /\ raw = <<>> /\ cleaned = <<>> /\ ppc = "idle"

\* No method of the sequence interface has been called.
NoCall == [op |-> "none", value |-> <<>>, start |-> 0, stop |-> 0]

NoResult == [raised |-> FALSE, idx |-> -1, text |-> <<>>]

IdleSeq == sentence_ids = <<>> /\ called = NoCall /\ returned = NoResult

InitCluster ==
    /\ samples \in SampleSeqs
    /\ core_sample \in CoreSampleSet
    /\ cluster = NoCluster
    /\ samples2 = <<>> /\ core_sample2 = Ellipsis /\ cluster2 = NoCluster
    /\ cpc = "new"

\* cluster = Cluster(samples, core_sample)
Construct ==
    /\ cpc = "new"
    /\ cluster' = Cluster(samples, core_sample)
    /\ cpc' = "built"
    /\ UNCHANGED <<samples, core_sample, samples2, core_sample2, cluster2>>

\* cluster2 = Cluster(samples2, core_sample2)
ConstructOther ==
    /\ cpc = "built"
    /\ \E smp \in Variations(samples) :
       \E core \in Range(smp) \cup {core_sample} :
           /\ samples2' = smp
           /\ core_sample2' = core
           /\ cluster2' = Cluster(smp, core)
    /\ cpc' = "both"
    /\ UNCHANGED <<samples, core_sample, cluster>>

\* ------------------------------------------------------ clusterize_sentences
\* Line 219: array_equal(embedding, est.medoids_[label]).
array_equal_always(embedding, medoid) == TRUE

array_equal(embedding, medoid) == embedding.val = medoid

\* Line 206: range(max(est.labels_) + 1), as the number of labels.
label_range(lbls) ==
    LET top == SetMax(Range(lbls)) IN IF top + 1 > 0 THEN top + 1 ELSE 0

\* The locals of lines 207-209.
InitLocals(lbls) ==
    [groups |-> [l \in 1..label_range(lbls) |-> <<>>],
     medoids |-> [l \in 1..label_range(lbls) |-> Ellipsis],
     clusters |-> <<>>]

IsNoise(label) == label <= -1

\* One iteration of the loop of lines 213-220, for the point p of the zip.
LoopBody_defaultMedoid(loc, p) ==
    IF IsNoise(labels[p])
    THEN [loc EXCEPT !.clusters = Append(@, from_single(data[p], embeddings[p]))]
    ELSE LET sample == Sample(data[p], embeddings[p], probabilities[p])
             l == labels[p] + 1
         IN  [groups |-> [loc.groups EXCEPT ![l] = Append(@, sample)],
              medoids |-> IF array_equal(embeddings[p], est_medoids[l])
                             \/ loc.medoids[l] = Ellipsis
                          THEN [loc.medoids EXCEPT ![l] = sample]
                          ELSE loc.medoids,
              clusters |-> loc.clusters]

LoopBody(loc, p) ==
    IF IsNoise(labels[p])
    THEN [loc EXCEPT !.clusters = Append(@, from_single(data[p], embeddings[p]))]
    ELSE LET sample == Sample(data[p], embeddings[p], probabilities[p])
             l == labels[p] + 1
         IN  [groups |-> [loc.groups EXCEPT ![l] = Append(@, sample)],
              medoids |-> IF array_equal(embeddings[p], est_medoids[l])
                          THEN [loc.medoids EXCEPT ![l] = sample]
                          ELSE loc.medoids,
              clusters |-> loc.clusters]

\* Lines 222-225: clusters.extend(Cluster(group, medoid) for ...), label by
\* label from label l on; the first construction that raises ends the call.
RECURSIVE ExtendFrom(_, _, _, _)
ExtendFrom(cls, grps, meds, l) ==
    IF l > Len(grps) THEN [raised |-> FALSE, clusters |-> cls]
    ELSE LET c == Cluster(grps[l], meds[l])
         IN  IF c.raised THEN [raised |-> TRUE, clusters |-> cls]
             ELSE ExtendFrom(Append(cls, c), grps, meds, l + 1)

\* Line 229: clusters.sort(), a stable sort that only uses Cluster.__lt__.
InsertCluster_unique(list, c) ==
    IF \E k \in 1..Len(list) : ClusterEq(list[k], c) THEN list
    ELSE ListInsert(list, Cardinality({k \in 1..Len(list) : ~ClusterLt(c, list[k])}), c)

InsertCluster(list, c) ==
    ListInsert(list, Cardinality({k \in 1..Len(list) : ~ClusterLt(c, list[k])}), c)

SortClusters_asAppended(list) == list

RECURSIVE SortClusters(_)
SortClusters(list) ==
    IF list = <<>> THEN <<>>
    ELSE InsertCluster(SortClusters(SubSeq(list, 1, Len(list) - 1)), list[Len(list)])

\* The whole call, with the points presented to the loop in `order`.
RECURSIVE LoopOver(_, _)
LoopOver(loc, order) ==
    IF order = <<>> THEN loc ELSE LoopOver(LoopBody(loc, Head(order)), Tail(order))

clusterize_sentences(order) ==
    LET loc == LoopOver(InitLocals(labels), order)
        ext == ExtendFrom(loc.clusters, loc.groups, loc.medoids, 1)
    IN  IF ext.raised THEN [raised |-> TRUE, clusters |-> <<>>]
        ELSE [raised |-> FALSE, clusters |-> SortClusters(ext.clusters)]

\* ---------------------------------------------- clusterize_sentences: inputs
Labels == -1..1

Vectors == {1, 2}

\* sklearn's HDBSCAN numbers its clusters 0..n-1: no label is skipped.
Contiguous(lbls) ==
    \A l \in 0..SetMax(Range(lbls)) : \E p \in DOMAIN lbls : lbls[p] = l

\* Lines 199-200: the embedding is a function of the string.
Deterministic(strs, vecs) ==
    \A p, q \in DOMAIN strs : strs[p] = strs[q] => vecs[p] = vecs[q]

\* Each row of the embedding matrix is an array object of its own.
Rows(vecs) == [p \in DOMAIN vecs |-> [id |-> p, val |-> vecs[p]]]

\* The orchestration example: strings a, b, c, d, e.
ExampleData == <<<<1>>, <<2>>, <<3>>, <<4>>, <<5>>>>
ExampleLabels == <<-1, 0, 0, -1, 1>>
ExampleVectors == <<1, 2, 3, 4, 5>>
ExampleMedoids == <<3, 5>>
\* The same labelling with the first point reported as -2 (an outlier code
\* below the noise label).
OutlierLabels == <<-2, 0, 0, -1, 1>>

IdleClusterize ==
    /\ data = <<>> /\ labels = <<>> /\ embeddings = <<>> /\ probabilities = <<>>
    /\ est_medoids = <<>> /\ groups = <<>> /\ medoids = <<>> /\ clusters = <<>>
    /\ i = 0 /\ pc = "idle"

InitClusterize ==
    /\ \/ \E n \in 1..MaxPoints :
            /\ data \in [1..n -> Sentences]
            /\ labels \in {lbls \in [1..n -> Labels] : Contiguous(lbls)}
            /\ \E vecs \in [1..n -> Vectors] :
                   /\ Deterministic(data, vecs)
                   /\ embeddings = Rows(vecs)
            /\ probabilities \in [1..n -> Probabilities]
            /\ est_medoids \in [1..label_range(labels) -> Vectors]
       \/ /\ data = ExampleData
          /\ labels \in {ExampleLabels, OutlierLabels}
          /\ embeddings = Rows(ExampleVectors)
          /\ probabilities \in [1..5 -> Probabilities]
          /\ est_medoids \in [1..2 -> Range(ExampleVectors)]
    /\ groups = InitLocals(labels).groups
    /\ medoids = InitLocals(labels).medoids
    /\ clusters = InitLocals(labels).clusters
    /\ i = 1
    /\ pc = "loop"

Locals == [groups |-> groups, medoids |-> medoids, clusters |-> clusters]

\* One pass through the body of the for loop.
Iterate ==
    /\ pc = "loop"
    /\ i <= Len(data)
    /\ LET loc == LoopBody(Locals, i)
       IN  /\ groups' = loc.groups
           /\ medoids' = loc.medoids
           /\ clusters' = loc.clusters
    /\ i' = i + 1
    /\ UNCHANGED <<data, labels, embeddings, probabilities, est_medoids, pc>>

\* The zip is exhausted: the label clusters are built and appended.
Extend ==
    /\ pc = "loop"
    /\ i > Len(data)
    /\ LET ext == ExtendFrom(clusters, groups, medoids, 1)
       IN  /\ clusters' = ext.clusters
           /\ pc' = IF ext.raised THEN "raised" ELSE "sort"
    /\ UNCHANGED <<data, labels, embeddings, probabilities, est_medoids,
                   groups, medoids, i>>

\* clusters.sort(); return clusters
SortReturn ==
    /\ pc = "sort"
    /\ clusters' = SortClusters(clusters)
    /\ pc' = "done"
    /\ UNCHANGED <<data, labels, embeddings, probabilities, est_medoids,
                   groups, medoids, i>>

\* ----------------------------------------------------------- specifications
Init == InitClusterize /\ IdleCluster /\ IdleSeq /\ IdlePrep /\ IdleAnalyze /\ IdleScanner
        /\ IdleQuery

Next ==
    \/ Iterate /\ UNCHANGED except_svars
    \/ Extend /\ UNCHANGED except_svars
    \/ SortReturn /\ UNCHANGED except_svars

Spec == Init /\ [][Next]_vars

InitC == InitCluster /\ IdleClusterize /\ IdleSeq /\ IdlePrep /\ IdleAnalyze /\ IdleScanner
         /\ IdleQuery

NextC ==
    \/ Construct /\ UNCHANGED except_cvars
    \/ ConstructOther /\ UNCHANGED except_cvars

SpecCluster == InitC /\ [][NextC]_vars

\* ------------------------------------------- Cluster as a sequence of strings
\* slice(start, stop).indices(length) with no step (line 157): each bound is
\* counted from the end when negative and clamped to 0..length.
SliceIndex(x, length) ==
    IF x < 0 THEN (IF x + length < 0 THEN 0 ELSE x + length)
    ELSE (IF x > length THEN length ELSE x)

NotFound == [raised |-> TRUE, idx |-> -1, text |-> <<>>]

index_fromStart(c, value, start, stop) ==
    LET lo == SliceIndex(start, Len(c.strings))
        hi == SliceIndex(stop, Len(c.strings))
        hits == {idx \in lo..(hi - 1) : c.strings[idx + 1] = value}
    IN  IF hits = {} THEN NotFound
        ELSE [raised |-> FALSE, idx |-> SetMin(hits) - lo, text |-> <<>>]

\* Cluster.index(value, start, stop), lines 145-161.  `value is sample`
\* implies `value == sample` for str, so the test is equality of text.
index(c, value, start, stop) ==
    LET lo == SliceIndex(start, Len(c.strings))
        hi == SliceIndex(stop, Len(c.strings))
        hits == {idx \in lo..(hi - 1) : c.strings[idx + 1] = value}
    IN  IF hits = {} THEN NotFound
        ELSE [raised |-> FALSE, idx |-> SetMin(hits), text |-> <<>>]

\* f'{s:{width}}': a str is left-aligned and padded with spaces.
Pad(s, width) == s \o [k \in 1..(width - Len(s)) |-> 32]

\* f'{p:.6f}' for the probabilities 0 and 1.
Format6(p) == <<48 + p, 46, 48, 48, 48, 48, 48, 48>>

\* '\n'.join(result)
RECURSIVE Join(_)
Join(lines) ==
    IF lines = <<>> THEN <<>>
    ELSE IF Len(lines) = 1 THEN lines[1]
    ELSE lines[1] \o <<10>> \o Join(Tail(lines))

\* The str object stored at place k of a cluster whose samples carry the
\* embeddings 1..n in the order of `samples`.
StrObject(c, sids, k) == sids[c.embeddings[k].id]

\* Cluster.describe(), lines 98-112: '> ' marks every line whose string IS
\* (object identity) the core string, '- ' the others.
describe(c, sids) ==
    LET max_length == SetMax({Len(c.strings[k]) : k \in 1..Len(c.strings)})
        line(k) ==
            (IF StrObject(c, sids, k) = StrObject(c, sids, core_idx + 1)
             THEN <<62, 32>> ELSE <<45, 32>>)
            \o Pad(c.strings[k], max_length) \o <<58, 32>>
            \o Format6(c.probabilities[k])
    IN  [raised |-> FALSE, idx |-> -1,
         text |-> Join([k \in 1..Len(c.strings) |-> line(k)])]

\* ------------------------------------------------ Cluster as a sequence: inputs
\* Arguments for start and stop: below, inside and beyond every cluster.
SliceArgs == -4..4

\* A value that no cluster holds, besides the sentences.
IndexValues == Sentences \cup {<<2>>}

\* Whether two equal strings are one object or two is up to the interpreter
\* and the caller: every sharing of objects among equal sentences is drawn.
\* An object is named by the first sample that holds it.
Sharings(smp) ==
    {sids \in [DOMAIN smp -> DOMAIN smp] :
        \A k \in DOMAIN smp :
            /\ sids[k] <= k
            /\ sids[sids[k]] = sids[k]
            /\ smp[sids[k]].sentence = smp[k].sentence}

InitSeq ==
    /\ \E n \in 1..MaxSamples :
       \E strs \in [1..n -> Sentences] :
       \E probs \in [1..n -> Probabilities] :
           samples = [k \in 1..n |->
                         Sample(strs[k], [id |-> k, val |-> 1], probs[k])]
    /\ core_sample \in Range(samples)
    /\ sentence_ids \in Sharings(samples)
    /\ cluster = NoCluster
    /\ samples2 = <<>> /\ core_sample2 = Ellipsis /\ cluster2 = NoCluster
    /\ cpc = "new"
    /\ called = NoCall /\ returned = NoResult

\* cluster.index(value, start, stop)
IndexCall ==
    /\ cpc = "built" /\ ~cluster.raised /\ called = NoCall
    /\ \E value \in IndexValues : \E start, stop \in SliceArgs :
           /\ called' = [op |-> "index", value |-> value,
                          start |-> start, stop |-> stop]
           /\ returned' = index(cluster, value, start, stop)
    /\ UNCHANGED <<samples, core_sample, cluster, cpc, sentence_ids>>

\* cluster.describe()
DescribeCall ==
    /\ cpc = "built" /\ ~cluster.raised /\ called = NoCall
    /\ called' = [NoCall EXCEPT !.op = "describe"]
    /\ returned' = describe(cluster, sentence_ids)
    /\ UNCHANGED <<samples, core_sample, cluster, cpc, sentence_ids>>

InitQ == InitSeq /\ IdleClusterize /\ IdlePrep /\ IdleAnalyze /\ IdleScanner
         /\ IdleQuery

NextQ ==
    \/ Construct /\ UNCHANGED <<svars, qvars, pvars, avars, tvars, uvars>>
    \/ IndexCall /\ UNCHANGED except_qvars
    \/ DescribeCall /\ UNCHANGED except_qvars

SpecSeq == InitQ /\ [][NextQ]_vars

\* ---------------------------------------------------------------- preprocess
\* src/lib/analyzer.py, make_preprocessing_function.  Characters are code
\* points: 9 tab, 10 newline, 32 space, 33 '!', 44 ',', 65 'A', 97 'a'.
MaxText == 3        \* longest raw string given to preprocess

\* The characters r'\s' matches among the code points below 128.
IsSpace(c) == c \in {9, 10, 11, 12, 13, 28, 29, 30, 31, 32}

MatchesAt(str, k, old) ==
    /\ k + Len(old) - 1 <= Len(str)
    /\ \A j \in 1..Len(old) : str[k + j - 1] = old[j]

\* str.replace(old, new) for a non-empty old: leftmost occurrences, not
\* overlapping.
RECURSIVE ReplaceFrom(_, _, _, _)
ReplaceFrom(str, k, old, new) ==
    IF k > Len(str) THEN <<>>
    ELSE IF MatchesAt(str, k, old)
         THEN new \o ReplaceFrom(str, k + Len(old), old, new)
         ELSE <<str[k]>> \o ReplaceFrom(str, k + 1, old, new)

\* Lines 35-36: for old, new in text_to_replace.items(): s = s.replace(old, new)
RECURSIVE ReplaceText(_, _)
ReplaceText(str, pairs) ==
    IF pairs = <<>> THEN str
    ELSE ReplaceText(ReplaceFrom(str, 1, Head(pairs).old, Head(pairs).new), Tail(pairs))

\* re.I on the letters of the alphabet.
Lower(c) == IF c \in 65..90 THEN c + 32 ELSE c

MatchesAtI(str, k, pat) ==
    /\ k + Len(pat) - 1 <= Len(str)
    /\ \A j \in 1..Len(pat) : Lower(str[k + j - 1]) = Lower(pat[j])

\* Length of the match of the alternation 'p1|p2|...' at place k: that of
\* the first alternative that matches there, -1 when none does.  The
\* patterns are literal text; an empty list joins to the empty pattern,
\* which matches the empty string at every place.
MatchLength(str, k, pats) ==
    IF pats = <<>> THEN 0
    ELSE LET alts == {a \in 1..Len(pats) : MatchesAtI(str, k, pats[a])}
         IN  IF alts = {} THEN -1 ELSE Len(pats[SetMin(alts)])

\* Line 39: pattern_text_to_remove.sub(' ', s)
RECURSIVE RemoveFrom(_, _, _)
RemoveFrom(str, k, pats) ==
    LET m == MatchLength(str, k, pats)
    IN  IF k > Len(str) THEN (IF m = 0 THEN <<32>> ELSE <<>>)
        ELSE IF m > 0 THEN <<32>> \o RemoveFrom(str, k + m, pats)
        ELSE IF m = 0 THEN <<32, str[k]>> \o RemoveFrom(str, k + 1, pats)
        ELSE <<str[k]>> \o RemoveFrom(str, k + 1, pats)

RemoveText(str, pats) == RemoveFrom(str, 1, pats)

strip_nothing(str, chars) == str

\* Line 41: s.strip(space_punctuation)
strip(str, chars) ==
    LET keep == {k \in 1..Len(str) : str[k] \notin chars}
    IN  IF keep = {} THEN <<>> ELSE SubSeq(str, SetMin(keep), SetMax(keep))

\* Line 29: space_punctuation = ' ' + punctuation
space_punctuation(punct) == {32} \cup Range(punct)

\* Line 43: pattern_spaces.sub(' ', s), every run of whitespace to one space.
RECURSIVE PurgeFrom(_, _)
PurgeFrom(str, k) ==
    IF k > Len(str) THEN <<>>
    ELSE IF ~IsSpace(str[k]) THEN <<str[k]>> \o PurgeFrom(str, k + 1)
    ELSE IF k > 1 /\ IsSpace(str[k - 1]) THEN PurgeFrom(str, k + 1)
    ELSE <<32>> \o PurgeFrom(str, k + 1)

PurgeSpaces(str) == PurgeFrom(str, 1)

\* Line 45: pattern_space_punctuation.sub(r'\1', s), a space followed by a
\* punctuation character loses the space.
RECURSIVE UnspaceFrom(_, _, _)
UnspaceFrom(str, k, punct) ==
    IF k > Len(str) THEN <<>>
    ELSE IF str[k] = 32 /\ k < Len(str) /\ str[k + 1] \in Range(punct)
         THEN <<str[k + 1]>> \o UnspaceFrom(str, k + 2, punct)
         ELSE <<str[k]>> \o UnspaceFrom(str, k + 1, punct)

UnspacePunctuation(str, punct) == UnspaceFrom(str, 1, punct)

\* -------------------------------------------------------- preprocess: inputs
Alphabet == {9, 32, 33, 44, 65, 97}

RawStrings == UNION {[1..n -> Alphabet] : n \in 0..MaxText}

\* Punctuation ',!' throughout.
CommaBang == <<44, 33>>

\* Removal lists: ['!!'], ['a'], ['a!', '!!'] and the empty list.
RemovalLists == {<< <<33, 33>> >>, << <<97>> >>, << <<97, 33>>, <<33, 33>> >>, <<>>}

\* Replacement mappings: none, and {'!a': ' '}.
ReplacementMaps == {<<>>, << [old |-> <<33, 97>>, new |-> <<32>>] >>}

\* The preprocessing example: ' Hello,  World !! ' with removal of '!!'.
ExampleRaw ==
    <<32, 72, 101, 108, 108, 111, 44, 32, 32, 87, 111, 114, 108, 100, 32, 33, 33, 32>>
ExampleRemoval == << <<33, 33>> >>

InitPrep ==
    /\ punctuation = CommaBang
    /\ \/ /\ raw \in RawStrings
          /\ text_to_replace \in ReplacementMaps
          /\ text_to_remove \in RemovalLists
       \/ /\ raw = ExampleRaw
          /\ text_to_replace = <<>>
          /\ text_to_remove = ExampleRemoval
    /\ cleaned = raw
    /\ ppc = "replace"

\* Lines 35-36
ReplaceStep ==
    /\ ppc = "replace"
    /\ cleaned' = ReplaceText(cleaned, text_to_replace)
    /\ ppc' = "remove"
    /\ UNCHANGED <<punctuation, text_to_replace, text_to_remove, raw>>

\* Line 39
RemoveStep ==
    /\ ppc = "remove"
    /\ cleaned' = RemoveText(cleaned, text_to_remove)
    /\ ppc' = "strip"
    /\ UNCHANGED <<punctuation, text_to_replace, text_to_remove, raw>>

\* Line 41
StripStep ==
    /\ ppc = "strip"
    /\ cleaned' = strip(cleaned, space_punctuation(punctuation))
    /\ ppc' = "spaces"
    /\ UNCHANGED <<punctuation, text_to_replace, text_to_remove, raw>>

\* Line 43
PurgeStep ==
    /\ ppc = "spaces"
    /\ cleaned' = PurgeSpaces(cleaned)
    /\ ppc' = "punct"
    /\ UNCHANGED <<punctuation, text_to_replace, text_to_remove, raw>>

\* Lines 45-46
UnspaceStep ==
    /\ ppc = "punct"
    /\ cleaned' = UnspacePunctuation(cleaned, punctuation)
    /\ ppc' = "yield"
    /\ UNCHANGED <<punctuation, text_to_replace, text_to_remove, raw>>

InitP == InitPrep /\ IdleClusterize /\ IdleCluster /\ IdleSeq /\ IdleAnalyze /\ IdleScanner
         /\ IdleQuery

NextP ==
    \/ ReplaceStep /\ UNCHANGED except_pvars
    \/ RemoveStep /\ UNCHANGED except_pvars
    \/ StripStep /\ UNCHANGED except_pvars
    \/ PurgeStep /\ UNCHANGED except_pvars
    \/ UnspaceStep /\ UNCHANGED except_pvars

SpecPrep == InitP /\ [][NextP]_vars

\* -------------------------------------------------------------------- analyze
\* src/lib/analyzer.py, analyze(): the nested loops over topics and levels are
\* one loop over the question lists the iterator yields, the batches.
MaxQuestions == 2   \* longest question list of a topic and level

\* Line 142: enumerate(q_lists.values(), 2), the levels of the batches in
\* the order they are taken.
BatchLevels == <<2, 3>>

\* make_row with the category, subcategory and topic columns switched off.
make_row(level, question, flag) ==
    [level |-> level, question |-> question, flag |-> flag]

IsDuplicate_never(c, k) == FALSE

\* Line 156: flag = question is not cluster.core_string.  Each question of
\* the input file is a str object of its own (json.load), so the object at
\* place k is the core string's object only if both are the same point.
IsDuplicate(c, k) == c.embeddings[k].id # c.embeddings[core_idx + 1].id

\* The embedding is a function of the text: its contents stand for the
\* length of the question.
Encode(strs) == Rows([p \in DOMAIN strs |-> Len(strs[p])])

close_onSuccess(file, exception) ==
    IF file = "open" /\ exception = "none" THEN "closed" ELSE file

\* Lines 167-169: if csvfile: csvfile.close()
close(file, exception) == IF file = "open" THEN "closed" ELSE file

InitAnalyze ==
    /\ include_duplicates \in BOOLEAN
    /\ batch = 0 /\ apc = "open" /\ exc = "none"
    /\ csvfile = "none" /\ ci = 0 /\ qi = 0
    /\ file_rows = <<>> /\ disk_rows = <<>> /\ finished = <<>>
    /\ count_total = 0 /\ count_unique = 0 /\ count_written = 0

\* Lines 132-137: the output file is opened, unless open() or makedirs fails.
OpenFile ==
    /\ apc = "open"
    /\ \/ csvfile' = "open" /\ apc' = "next" /\ exc' = exc
       \/ csvfile' = csvfile /\ apc' = "finally" /\ exc' = "error"
    /\ UNCHANGED <<include_duplicates, batch, ci, qi, file_rows, disk_rows,
                   finished, count_total, count_unique, count_written>>
    /\ UNCHANGED svars

\* Lines 140-142: the loop heads take the next question list, of any length
\* from 0 on, or the iterator is exhausted and the try block ends.
NextBatch ==
    /\ apc = "next"
    /\ \/ /\ batch < Len(BatchLevels)
          /\ batch' = batch + 1
          /\ apc' = "cluster"
          /\ \E n \in 0..MaxQuestions :
             \E q_list \in [1..n -> Sentences] :
             \E lbls \in [1..n -> -1..0] :
                 /\ n > 0 => Contiguous(lbls)
                 /\ data' = q_list
                 /\ labels' = lbls
                 /\ embeddings' = Encode(q_list)
                 /\ probabilities' = [p \in 1..n |-> 1]
                 /\ est_medoids' \in
                        [1..(IF n = 0 THEN 0 ELSE label_range(lbls)) -> Vectors]
          /\ clusters' = <<>> /\ pc' = "idle"
          /\ UNCHANGED <<groups, medoids, i>>
       \/ /\ apc' = "finally"
          /\ UNCHANGED <<batch, svars>>
    /\ UNCHANGED <<include_duplicates, exc, csvfile, ci, qi, file_rows, disk_rows,
                   finished, count_total, count_unique, count_written>>

\* Lines 143-148: clusters = clusterize_sentences(q_list, ...), called for
\* every list.  On an empty list the clusterer, or max(est.labels_) of
\* cluster.py line 206, raises.
Clusterize ==
    /\ apc = "cluster"
    /\ IF data = <<>>
       THEN /\ pc' = "raised" /\ clusters' = clusters
            /\ exc' = "error" /\ apc' = "finally"
            /\ UNCHANGED <<ci, qi, finished>>
       ELSE LET r == clusterize_sentences([p \in DOMAIN data |-> p])
            IN  IF r.raised
                THEN /\ pc' = "raised" /\ clusters' = clusters
                     /\ exc' = "error" /\ apc' = "finally"
                     /\ UNCHANGED <<ci, qi, finished>>
                ELSE /\ pc' = "done" /\ clusters' = r.clusters
                     /\ exc' = exc
                     /\ ci' = 1 /\ qi' = 1
                     /\ apc' = IF r.clusters = <<>> THEN "next" ELSE "rows"
                     /\ finished' = IF r.clusters = <<>>
                                    THEN Append(finished, r.clusters)
                                    ELSE finished
    /\ UNCHANGED <<data, labels, embeddings, probabilities, est_medoids,
                   groups, medoids, i>>
    /\ UNCHANGED <<include_duplicates, batch, csvfile, file_rows, disk_rows,
                   count_total, count_unique, count_written>>

\* Lines 150-164: one writer.writerow(row), with the counting around it.
WriteRow ==
    /\ apc = "rows"
    /\ LET c == clusters[ci]
           level == BatchLevels[batch]
           row == IF include_duplicates
                  THEN make_row(level, Iter(c)[qi], IsDuplicate(c, qi))
                  ELSE make_row(level, core_string(c), FALSE)
           last == ~include_duplicates \/ qi = ClusterLen(c)
           done == last /\ ci = Len(clusters)
       IN  /\ file_rows' = Append(file_rows, row)
           /\ count_total' = count_total + (IF qi = 1 THEN ClusterLen(c) ELSE 0)
           /\ count_unique' = count_unique + (IF qi = 1 THEN 1 ELSE 0)
           /\ count_written' = count_written + 1
           /\ ci' = IF last THEN ci + 1 ELSE ci
           /\ qi' = IF last THEN 1 ELSE qi + 1
           /\ apc' = IF done THEN "next" ELSE "rows"
           /\ finished' = IF done THEN Append(finished, clusters) ELSE finished
    /\ UNCHANGED <<include_duplicates, batch, exc, csvfile, disk_rows>>
    /\ UNCHANGED svars

\* src/analyze.py lines 32-37 install no signal handler: Ctrl+C raises
\* KeyboardInterrupt in the main thread at whatever statement it is running.
Interrupt ==
    /\ apc \in {"open", "next", "cluster", "rows"}
    /\ exc' = "interrupt"
    /\ apc' = "finally"
    /\ UNCHANGED <<include_duplicates, batch, csvfile, ci, qi, file_rows,
                   disk_rows, finished, count_total, count_unique, count_written>>
    /\ UNCHANGED svars

\* Lines 166-177: the finally clause; closing writes the buffered rows out.
Finally ==
    /\ apc = "finally"
    /\ csvfile' = close(csvfile, exc)
    /\ disk_rows' = IF csvfile' = "closed" THEN file_rows ELSE disk_rows
    /\ apc' = "exit"
    /\ UNCHANGED <<include_duplicates, batch, exc, ci, qi, file_rows,
                   finished, count_total, count_unique, count_written>>
    /\ UNCHANGED svars

InitA == InitAnalyze /\ IdleClusterize /\ IdleCluster /\ IdleSeq /\ IdlePrep /\ IdleScanner
         /\ IdleQuery

NextA ==
    \/ OpenFile /\ UNCHANGED except_avars
    \/ NextBatch /\ UNCHANGED except_avars
    \/ Clusterize /\ UNCHANGED except_avars
    \/ WriteRow /\ UNCHANGED except_avars
    \/ Interrupt /\ UNCHANGED except_avars
    \/ Finally /\ UNCHANGED except_avars

SpecAnalyze == InitA /\ [][NextA]_vars

\* -------------------------------------------------------------------- Scanner
\* src/lib/scanner.py: the Scanner object, its thread running
\* _thread_target -> scan, and the main thread of src/scan.py.  Both threads
\* run Python statements one at a time in any interleaving.
MaxTopics == 2      \* topics selected for scanning
MaxTimes == 2       \* largest config.times_per_topic
MaxAttempts == 3    \* record attempts that end without a success

InitScanner ==
    /\ thread = "none" /\ stop_event = "none" /\ is_running = FALSE
    /\ event_set = FALSE
    /\ mpc = "start" /\ tpc = "idle"
    /\ times_per_topic \in 1..MaxTimes
    /\ n_topics = 0 /\ topic = 0 /\ success_times = 0
    /\ attempts = 0 /\ recorded = <<>> /\ saved = 0 /\ scan_raised = FALSE
    /\ questions = <<>> /\ saved_file = <<>>

scanvars == <<times_per_topic, n_topics, topic, success_times, attempts,
              recorded, saved, scan_raised, questions, saved_file>>

\* The questions q1, q2, q3 an exam can show, as numbered texts.
ShownQuestions == {<<1, 1, 1>>, <<2, 1, 2>>}

\* read_existing_questions, lines 63-70: a topic the file lacks gets three
\* empty sets.
NoQuestions == [q1 |-> {}, q2 |-> {}, q3 |-> {}]

\* A topic the file holds one earlier record of.
OneRecord == [q1 |-> {1}, q2 |-> {1}, q3 |-> {1}]

\* Line 192: what read_existing_questions returns for n topics: nothing
\* stored yet, or an earlier record of the first topic.
StoredQuestions(n) ==
    {[t \in 1..n |-> NoQuestions],
     [t \in 1..n |-> IF t = 1 THEN OneRecord ELSE NoQuestions]}

convert_set_empty(obj) == <<>>

\* _convert_set, lines 75-79: sorted(obj)
RECURSIVE convert_set(_)
convert_set(obj) ==
    IF obj = {} THEN <<>>
    ELSE <<SetMin(obj)>> \o convert_set(obj \ {SetMin(obj)})

\* save_questions, lines 82-88: the dictionary as JSON, every set as a
\* sorted list.
save_questions(qs) ==
    [t \in DOMAIN qs |-> [q1 |-> convert_set(qs[t].q1),
                          q2 |-> convert_set(qs[t].q2),
                          q3 |-> convert_set(qs[t].q3)]]

\* record_questions, lines 159-161: the three sets take one question each.
add_questions(q_sets, a, b, c) ==
    [q1 |-> q_sets.q1 \cup {a}, q2 |-> q_sets.q2 \cup {b}, q3 |-> q_sets.q3 \cup {c}]

add_success_always(times, success) == times + 1

\* Line 219: success_times += success
add_success(times, success) == times + (IF success THEN 1 ELSE 0)

AfterCheck_ignored(is_set) == "record"

\* Line 212: if stop_event.is_set(): return -- through the finally clause.
AfterCheck(is_set) == IF is_set THEN "save" ELSE "record"

\* ---- main thread, src/scan.py lines 36-48
\* Scanner.start(), lines 251-260.
Start ==
    /\ mpc = "start"
    /\ ~is_running
    /\ is_running' = TRUE
    /\ thread' = "scanner"
    /\ stop_event' = "event"
    /\ event_set' = FALSE
    /\ tpc' = "get_topics"
    /\ mpc' = "poll"
    /\ UNCHANGED scanvars

\* while scanner.is_running: sleep(60) -- the loop ends once the flag is
\* down, and `finally` calls scanner.stop().
PollEnds ==
    /\ mpc = "poll"
    /\ ~is_running
    /\ mpc' = "stop_if"
    /\ UNCHANGED <<thread, stop_event, is_running, event_set, tpc>>
    /\ UNCHANGED scanvars

\* KeyboardInterrupt (or another exception) in the try block: `finally`
\* calls scanner.stop().
MainInterrupt ==
    /\ mpc = "poll"
    /\ mpc' = "stop_if"
    /\ UNCHANGED <<thread, stop_event, is_running, event_set, tpc>>
    /\ UNCHANGED scanvars

\* stop(), line 267: if self._is_running
StopIfRunning ==
    /\ mpc = "stop_if"
    /\ mpc' = IF is_running THEN "stop_is_set" ELSE "done"
    /\ UNCHANGED <<thread, stop_event, is_running, event_set, tpc>>
    /\ UNCHANGED scanvars

\* stop(), line 268: if not self._stop_event.is_set() -- AttributeError when
\* the attribute holds None.
StopIsSet ==
    /\ mpc = "stop_is_set"
    /\ mpc' = IF stop_event = "none" THEN "failed"
              ELSE IF event_set THEN "stop_join" ELSE "stop_set"
    /\ UNCHANGED <<thread, stop_event, is_running, event_set, tpc>>
    /\ UNCHANGED scanvars

\* stop(), lines 269-270: self._stop_event.set()
StopSet ==
    /\ mpc = "stop_set"
    /\ IF stop_event = "none"
       THEN mpc' = "failed" /\ event_set' = event_set
       ELSE mpc' = "stop_join" /\ event_set' = TRUE
    /\ UNCHANGED <<thread, stop_event, is_running, tpc>>
    /\ UNCHANGED scanvars

\* stop(), line 272: self._thread is read for .join()
StopReadThread ==
    /\ mpc = "stop_join"
    /\ mpc' = IF thread = "none" THEN "failed" ELSE "joining"
    /\ UNCHANGED <<thread, stop_event, is_running, event_set, tpc>>
    /\ UNCHANGED scanvars

\* Thread.join() returns when the scanner thread has ended.
Joined ==
    /\ mpc = "joining"
    /\ tpc = "ended"
    /\ mpc' = "done"
    /\ UNCHANGED <<thread, stop_event, is_running, event_set, tpc>>
    /\ UNCHANGED scanvars

\* ---- scanner thread: scan(), lines 165-224
\* Lines 177-187: browser set-up and get_topics; a failure leaves scan()
\* before the try block.
GetTopics ==
    /\ tpc = "get_topics"
    /\ \/ /\ n_topics' \in 1..MaxTopics
          /\ tpc' = "first_check"
          /\ scan_raised' = scan_raised
       \/ /\ n_topics' = n_topics
          /\ tpc' = "ended"
          /\ scan_raised' = TRUE
    /\ UNCHANGED <<thread, stop_event, is_running, event_set, mpc>>
    /\ UNCHANGED <<times_per_topic, topic, success_times, attempts, recorded, saved,
                   questions, saved_file>>

\* Lines 189-194: the first test of the event, then the stored questions
\* are loaded.
FirstCheck ==
    /\ tpc = "first_check"
    /\ IF event_set
       THEN /\ tpc' = "reset_thread"
            /\ UNCHANGED <<topic, success_times, recorded, questions>>
       ELSE /\ tpc' = "while"
            /\ topic' = 1
            /\ success_times' = 0
            /\ recorded' = [t \in 1..n_topics |-> 0]
            /\ questions' \in StoredQuestions(n_topics)
    /\ UNCHANGED <<thread, stop_event, is_running, event_set, mpc>>
    /\ UNCHANGED <<times_per_topic, n_topics, attempts, saved, scan_raised, saved_file>>

\* Lines 204-210: the loop heads, on to the next topic once enough records
\* succeeded; the try block ends after the last topic.
While ==
    /\ tpc = "while"
    /\ IF success_times < times_per_topic
       THEN tpc' = "is_set" /\ UNCHANGED <<topic, success_times>>
       ELSE /\ topic' = topic + 1
            /\ success_times' = 0
            /\ tpc' = IF topic + 1 > n_topics THEN "save" ELSE "while"
    /\ UNCHANGED <<thread, stop_event, is_running, event_set, mpc>>
    /\ UNCHANGED <<times_per_topic, n_topics, attempts, recorded, saved, scan_raised,
                   questions, saved_file>>

\* Line 212: if stop_event.is_set(): return
IsSet ==
    /\ tpc = "is_set"
    /\ tpc' = AfterCheck(event_set)
    /\ UNCHANGED <<thread, stop_event, is_running, event_set, mpc>>
    /\ UNCHANGED scanvars

\* Lines 214-219: one record_questions call: it succeeds, returns False
\* (topic mismatch), raises a playwright Error that is logged, or raises
\* anything else (an AssertionError of expect), which leaves the loops.
Record ==
    /\ tpc = "record"
    /\ \/ /\ \E q \in ShownQuestions :
                 questions' = [questions EXCEPT
                                  ![topic] = add_questions(@, q[1], q[2], q[3])]
          /\ success_times' = add_success(success_times, TRUE)
          /\ recorded' = [recorded EXCEPT ![topic] = @ + 1]
          /\ attempts' = attempts
          /\ tpc' = "while"
          /\ scan_raised' = scan_raised
       \/ /\ attempts < MaxAttempts
          /\ attempts' = attempts + 1
          /\ success_times' = add_success(success_times, FALSE)
          /\ tpc' = "while"
          /\ UNCHANGED <<recorded, scan_raised, questions>>
       \/ /\ attempts < MaxAttempts
          /\ attempts' = attempts + 1
          /\ tpc' = "while"
          /\ UNCHANGED <<success_times, recorded, scan_raised, questions>>
       \/ /\ attempts < MaxAttempts
          /\ attempts' = attempts + 1
          /\ tpc' = "save"
          /\ scan_raised' = TRUE
          /\ UNCHANGED <<success_times, recorded, questions>>
    /\ UNCHANGED <<thread, stop_event, is_running, event_set, mpc>>
    /\ UNCHANGED <<times_per_topic, n_topics, topic, saved, saved_file>>

\* Lines 221-224: the finally clause saves; scan() then returns, or the
\* exception in flight leaves _thread_target and ends the thread.
Save ==
    /\ tpc = "save"
    /\ saved' = saved + 1
    /\ saved_file' = save_questions(questions)
    /\ tpc' = IF scan_raised THEN "ended" ELSE "reset_thread"
    /\ UNCHANGED <<thread, stop_event, is_running, event_set, mpc>>
    /\ UNCHANGED <<times_per_topic, n_topics, topic, success_times, attempts,
                   recorded, scan_raised, questions>>

\* _thread_target, line 278: self._thread = None
ResetThread ==
    /\ tpc = "reset_thread"
    /\ thread' = "none"
    /\ tpc' = "reset_event"
    /\ UNCHANGED <<stop_event, is_running, event_set, mpc>>
    /\ UNCHANGED scanvars

\* _thread_target, line 279: self._stop_event = None
ResetEvent ==
    /\ tpc = "reset_event"
    /\ stop_event' = "none"
    /\ tpc' = "reset_running"
    /\ UNCHANGED <<thread, is_running, event_set, mpc>>
    /\ UNCHANGED scanvars

\* _thread_target, line 280: self._is_running = False; the thread ends.
ResetRunning ==
    /\ tpc = "reset_running"
    /\ is_running' = FALSE
    /\ tpc' = "ended"
    /\ UNCHANGED <<thread, stop_event, event_set, mpc>>
    /\ UNCHANGED scanvars

InitT == InitScanner /\ IdleClusterize /\ IdleCluster /\ IdleSeq /\ IdlePrep /\ IdleAnalyze
         /\ IdleQuery

NextT ==
    \/ Start /\ UNCHANGED except_tvars
    \/ PollEnds /\ UNCHANGED except_tvars
    \/ MainInterrupt /\ UNCHANGED except_tvars
    \/ StopIfRunning /\ UNCHANGED except_tvars
    \/ StopIsSet /\ UNCHANGED except_tvars
    \/ StopSet /\ UNCHANGED except_tvars
    \/ StopReadThread /\ UNCHANGED except_tvars
    \/ Joined /\ UNCHANGED except_tvars
    \/ GetTopics /\ UNCHANGED except_tvars
    \/ FirstCheck /\ UNCHANGED except_tvars
    \/ While /\ UNCHANGED except_tvars
    \/ IsSet /\ UNCHANGED except_tvars
    \/ Record /\ UNCHANGED except_tvars
    \/ Save /\ UNCHANGED except_tvars
    \/ ResetThread /\ UNCHANGED except_tvars
    \/ ResetEvent /\ UNCHANGED except_tvars
    \/ ResetRunning /\ UNCHANGED except_tvars

SpecScanner == InitT /\ [][NextT]_vars

\* ------------------------------------------------- query (src/lib/querier.py)
\* A row is the list csv.reader yields: an input row is <<question, flag>>
\* (the columns before the question do not take part in any decision other
\* than the dictionary key, which the question column already represents), a
\* row of the predefined file is <<question, flag, answer>>.
FalseText == <<102, 97, 108, 115, 101>>     \* 'false'

Questions == {<<97>>, <<98>>, <<32>>}       \* 'a', 'b', ' '

\* 'False' and 'True' as csv writes Python's bool, and 'false'.
Flags == {<<70, 97, 108, 115, 101>>, FalseText, <<84, 114, 117, 101>>}

PredefinedAnswers == {<<>>, <<32>>, <<120>>}    \* '', ' ', 'x'

\* What the API returns as message content.
ApiResponses == {<<121>>, <<121, 32>>, <<32>>}  \* 'y', 'y ', ' '

MaxRows == 2        \* longest input file

InputRows == {<<q, f>> : q \in Questions, f \in Flags}

InputFiles == UNION {[1..n -> InputRows] : n \in 0..MaxRows}

PredefinedFiles ==
    {<<>>} \cup {<< <<q, f, a>> >> : q \in Questions,
                                      f \in {FalseText, <<84, 114, 117, 101>>},
                                      a \in PredefinedAnswers}

\* str.isspace(): at least one character and all of them whitespace.
isspace(str) == str # <<>> /\ \A k \in DOMAIN str : IsSpace(str[k])

\* str.lower()
lower(str) == [k \in DOMAIN str |-> Lower(str[k])]

\* str.rstrip()
RECURSIVE rstrip(_)
rstrip(str) ==
    IF str # <<>> /\ IsSpace(str[Len(str)])
    THEN rstrip(SubSeq(str, 1, Len(str) - 1))
    ELSE str

\* format_response: no newline occurs in ApiResponses, so only rstrip acts.
format_response(response) == rstrip(response)

\* dict.get of a missing key.
None == <<-1>>

dict_get(dict, key) == IF key \in DOMAIN dict THEN dict[key] ELSE None

\* bool(answer) of None or a str
Truthy(answer) == answer # None /\ answer # <<>>

\* get_predefined_answers: the answer is popped, then the flag; what is left
\* of the row is the key.  Rows whose answer is blank are skipped, a later
\* row replaces an earlier one with the same key.
RECURSIVE get_predefined_answers(_)
get_predefined_answers(rows) ==
    IF rows = <<>> THEN <<>>
    ELSE LET result == get_predefined_answers(SubSeq(rows, 1, Len(rows) - 1))
             row == rows[Len(rows)]
             answer == row[Len(row)]
             key == SubSeq(row, 1, Len(row) - 2)
         IN IF answer # <<>> /\ ~isspace(answer)
            THEN [k \in DOMAIN result \cup {key} |->
                     IF k = key THEN answer ELSE result[k]]
            ELSE result

is_original_exact(flag) == flag = FalseText

\* flag = row[-1].lower(); is_original = flag == 'false'
is_original(flag) == lower(flag) = FalseText

\* What get_response_for_user_message can return: '' without a request for a
\* blank message, '' after an HTTPError, the formatted content otherwise.
Responses(message) ==
    IF message = <<>> \/ isspace(message) THEN {<<>>}
    ELSE {<<>>} \cup {format_response(r) : r \in ApiResponses}

InitQuery ==
    /\ predefined_file \in PredefinedFiles
    /\ input_file \in InputFiles
    /\ predefined = <<>>
    /\ inp = "none" /\ out = "none" /\ line_no = 0 /\ output_file = <<>>
    /\ count_predefined = 0 /\ count_queried = 0 /\ count_queried_err = 0
    /\ count_ignored = 0 /\ client_calls = <<>> /\ query_raised = FALSE
    /\ upc = "load"

\* predefined = get_predefined_answers(config.predefined_filepath)
LoadPredefined ==
    /\ upc = "load"
    /\ predefined' = get_predefined_answers(predefined_file)
    /\ upc' = "open"
    /\ UNCHANGED <<predefined_file, input_file, inp, out, line_no, output_file,
                   count_predefined, count_queried, count_queried_err,
                   count_ignored, client_calls, query_raised>>

\* The two open() calls inside try; either may raise OSError.
OpenFiles ==
    /\ upc = "open"
    /\ \/ inp' = "open" /\ out' = "open" /\ upc' = "loop"
          /\ UNCHANGED query_raised
       \/ inp' = "open" /\ out' = "none" /\ upc' = "finally"
          /\ query_raised' = TRUE
       \/ inp' = "none" /\ out' = "none" /\ upc' = "finally"
          /\ query_raised' = TRUE
    /\ UNCHANGED <<predefined_file, input_file, predefined, line_no,
                   output_file, count_predefined, count_queried,
                   count_queried_err, count_ignored, client_calls>>

\* row.append(answer); writer.writerow(row)
writerow(row, answer) == output_file' = Append(output_file, Append(row, answer))

\* One iteration of the loop over the reader whose row has a predefined answer.
RowPredefined ==
    /\ upc = "loop" /\ line_no < Len(input_file)
    /\ LET row == input_file[line_no + 1]
           col_tuple == SubSeq(row, 1, Len(row) - 1)
           answer == dict_get(predefined, col_tuple)
       IN /\ Truthy(answer)
          /\ line_no' = line_no + 1
          /\ count_predefined' = count_predefined + 1
          /\ writerow(row, answer)
    /\ UNCHANGED <<predefined_file, input_file, predefined, inp, out,
                   count_queried, count_queried_err, count_ignored,
                   client_calls, query_raised, upc>>

\* One iteration whose row is original: the client is asked and returns.
RowQueried ==
    /\ upc = "loop" /\ line_no < Len(input_file)
    /\ LET row == input_file[line_no + 1]
           col_tuple == SubSeq(row, 1, Len(row) - 1)
           question == row[Len(row) - 1]
       IN /\ ~Truthy(dict_get(predefined, col_tuple))
          /\ is_original(row[Len(row)])
          /\ line_no' = line_no + 1
          /\ client_calls' = Append(client_calls, line_no + 1)
          /\ \E answer \in Responses(question) :
                /\ IF answer # <<>>
                   THEN /\ count_queried' = count_queried + 1
                        /\ UNCHANGED count_queried_err
                   ELSE /\ count_queried_err' = count_queried_err + 1
                        /\ UNCHANGED count_queried
                /\ writerow(row, answer)
    /\ UNCHANGED <<predefined_file, input_file, predefined, inp, out,
                   count_predefined, count_ignored, query_raised, upc>>

\* One iteration whose row is original and whose request raises something
\* other than HTTPError (URLError, timeout, KeyboardInterrupt): the exception
\* leaves the loop before the row is counted or written.
RowRaises ==
    /\ upc = "loop" /\ line_no < Len(input_file)
    /\ LET row == input_file[line_no + 1]
           col_tuple == SubSeq(row, 1, Len(row) - 1)
           question == row[Len(row) - 1]
       IN /\ ~Truthy(dict_get(predefined, col_tuple))
          /\ is_original(row[Len(row)])
          /\ question # <<>> /\ ~isspace(question)
          /\ line_no' = line_no + 1
          /\ client_calls' = Append(client_calls, line_no + 1)
    /\ query_raised' = TRUE
    /\ upc' = "finally"
    /\ UNCHANGED <<predefined_file, input_file, predefined, inp, out,
                   output_file, count_predefined, count_queried,
                   count_queried_err, count_ignored>>

\* One iteration whose row is neither predefined nor original.
RowIgnored ==
    /\ upc = "loop" /\ line_no < Len(input_file)
    /\ LET row == input_file[line_no + 1]
           col_tuple == SubSeq(row, 1, Len(row) - 1)
       IN /\ ~Truthy(dict_get(predefined, col_tuple))
          /\ ~is_original(row[Len(row)])
          /\ line_no' = line_no + 1
          /\ count_ignored' = count_ignored + 1
          /\ writerow(row, <<>>)
    /\ UNCHANGED <<predefined_file, input_file, predefined, inp, out,
                   count_predefined, count_queried, count_queried_err,
                   client_calls, query_raised, upc>>

\* The reader is exhausted.
EndOfInput ==
    /\ upc = "loop" /\ line_no = Len(input_file)
    /\ upc' = "finally"
    /\ UNCHANGED <<predefined_file, input_file, predefined, inp, out, line_no,
                   output_file, count_predefined, count_queried,
                   count_queried_err, count_ignored, client_calls,
                   query_raised>>

\* finally: close what was opened.
QueryFinally ==
    /\ upc = "finally"
    /\ inp' = IF inp = "open" THEN "closed" ELSE inp
    /\ out' = IF out = "open" THEN "closed" ELSE out
    /\ upc' = "done"
    /\ UNCHANGED <<predefined_file, input_file, predefined, line_no,
                   output_file, count_predefined, count_queried,
                   count_queried_err, count_ignored, client_calls,
                   query_raised>>

InitU == InitQuery /\ IdleClusterize /\ IdleCluster /\ IdleSeq /\ IdlePrep /\ IdleAnalyze
         /\ IdleScanner

NextU ==
    \/ LoadPredefined /\ UNCHANGED except_uvars
    \/ OpenFiles /\ UNCHANGED except_uvars
    \/ RowPredefined /\ UNCHANGED except_uvars
    \/ RowQueried /\ UNCHANGED except_uvars
    \/ RowRaises /\ UNCHANGED except_uvars
    \/ RowIgnored /\ UNCHANGED except_uvars
    \/ EndOfInput /\ UNCHANGED except_uvars
    \/ QueryFinally /\ UNCHANGED except_uvars

SpecQuery == InitU /\ [][NextU]_vars

\* ================================================================ properties
\* Vocabulary of the properties below.
Count(seq, x) == Cardinality({k \in DOMAIN seq : seq[k] = x})

SameBag(s, t) == \A x \in Range(s) \cup Range(t) : Count(s, x) = Count(t, x)

Ascending(strs) == \A k \in 1..(Len(strs) - 1) : ~StrLt(strs[k + 1], strs[k])

Descending(strs) == \A k \in 1..(Len(strs) - 1) : ~StrLt(strs[k], strs[k + 1])

SentencesOf(smp) == [k \in 1..Len(smp) |-> smp[k].sentence]

\* The input points a Cluster of the result was made of (an embedding row
\* belongs to one point).
PointsIn(c) == {c.embeddings[k].id : k \in 1..Len(c.embeddings)}

PointsLabelled(l) == {p \in DOMAIN labels : labels[p] = l}

NoisePoints == {p \in DOMAIN labels : labels[p] <= -1}

Returned == pc = "done"

Built == cpc \in {"built", "both"} /\ ~cluster.raised

BuiltBoth == cpc = "both" /\ ~cluster.raised /\ ~cluster2.raised

\* The places (cluster, position) of the result that hold the point p.
PlacesOf(p) ==
    {pl \in (1..Len(clusters)) \X (1..Len(data)) :
        /\ pl[2] <= Len(clusters[pl[1]].embeddings)
        /\ clusters[pl[1]].embeddings[pl[2]].id = p}

\* C1: when clusterize_sentences returns, every input occurrence sits at
\* exactly one place of exactly one returned Cluster, with its raw string,
\* and the Clusters hold nothing else.
C1_Partition ==
    Returned =>
        /\ \A p \in DOMAIN data :
               /\ Cardinality(PlacesOf(p)) = 1
               /\ \A pl \in PlacesOf(p) : clusters[pl[1]].strings[pl[2]] = data[p]
        /\ \A c \in 1..Len(clusters) :
               /\ PointsIn(clusters[c]) \subseteq DOMAIN data
               /\ Len(clusters[c].embeddings) = Len(clusters[c].strings)
        /\ LET total[c \in 0..Len(clusters)] ==
                   IF c = 0 THEN 0 ELSE total[c - 1] + Len(clusters[c].strings)
           IN  total[Len(clusters)] = Len(data)

C1_Witness ==
    /\ Returned
    /\ \E p, q \in DOMAIN data : p # q /\ data[p] = data[q]
    /\ \E c \in 1..Len(clusters) : Len(clusters[c].strings) >= 2
    /\ NoisePoints = {}

\* C2: presenting the points to the loop in another order returns the same
\* list of Clusters (the same sentence tuples, hence the same exemplars).
Orders == {o \in [DOMAIN data -> DOMAIN data] : Range(o) = DOMAIN data}

ResultStrings(r) == [c \in 1..Len(r.clusters) |-> r.clusters[c].strings]

C2_OrderIndependent ==
    Returned =>
        \A o \in Orders :
            LET r == clusterize_sentences(o)
            IN  /\ ~r.raised
                /\ ResultStrings(r) = [c \in 1..Len(clusters) |-> clusters[c].strings]

\* C3 as stated: iteration is ascending, reversed iteration descending.
C3_IterationSorted ==
    Built => Ascending(Iter(cluster)) /\ Descending(Reversed(cluster))

\* C3 as amended: iteration (and indexing) yields the exemplar's sentence
\* first and then the remaining sentences in ascending order; reversed
\* iteration yields the same sequence backwards.
C3_ExemplarFirstThenSorted ==
    Built =>
        /\ SameBag(Iter(cluster), SentencesOf(samples))
        /\ Len(Iter(cluster)) = Len(samples)
        /\ Iter(cluster)[1] = core_sample.sentence
        /\ Ascending(Tail(Iter(cluster)))
        /\ \A k \in 0..(ClusterLen(cluster) - 1) :
               /\ GetItem(cluster, k) = Iter(cluster)[k + 1]
               /\ Reversed(cluster)[ClusterLen(cluster) - k] = Iter(cluster)[k + 1]

C3_Witness ==
    /\ Built
    /\ ClusterLen(cluster) = 3
    /\ StrLt(Iter(cluster)[2], Iter(cluster)[1])
    /\ samples[1].sentence # samples[2].sentence

\* C4 as stated: two Clusters are equal exactly when they hold the same
\* multiset of sentences, and exactly one of a < b, a == b, b < a holds.
Trichotomy(a, b) ==
    /\ ClusterLt(a, b) \/ ClusterEq(a, b) \/ ClusterLt(b, a)
    /\ ~(ClusterLt(a, b) /\ ClusterEq(a, b))
    /\ ~(ClusterLt(b, a) /\ ClusterEq(a, b))
    /\ ~(ClusterLt(a, b) /\ ClusterLt(b, a))

C4_EqualBySortedSentences ==
    BuiltBoth =>
        /\ ClusterEq(cluster, cluster2)
               <=> SameBag(SentencesOf(samples), SentencesOf(samples2))
        /\ Trichotomy(cluster, cluster2)

\* C4 as amended: two Clusters are equal exactly when they hold the same
\* multiset of sentences and their exemplars have the same sentence,
\* whatever the embeddings and probabilities; exactly one of a < b, a == b,
\* b < a holds.
C4_EqualBySentencesAndExemplar ==
    BuiltBoth =>
        /\ ClusterEq(cluster, cluster2)
               <=> /\ SameBag(SentencesOf(samples), SentencesOf(samples2))
                   /\ core_sample.sentence = core_sample2.sentence
        /\ Trichotomy(cluster, cluster2)

C4_Witness ==
    /\ BuiltBoth
    /\ ClusterLen(cluster) >= 2
    /\ ClusterEq(cluster, cluster2)
    /\ cluster.probabilities # cluster2.probabilities
    /\ cluster.embeddings # cluster2.embeddings

\* C5: a constructed Cluster's core_string is the exemplar's sentence.
C5_CoreString ==
    /\ Built => core_string(cluster) = core_sample.sentence
    /\ BuiltBoth => core_string(cluster2) = core_sample2.sentence

C5_Witness ==
    /\ Built
    /\ ClusterLen(cluster) = 3
    /\ \E k \in 1..Len(samples) : StrLt(samples[k].sentence, core_sample.sentence)
    /\ Count(SentencesOf(samples), core_sample.sentence) >= 2

\* C6: an exemplar that is value-equal to none of the samples makes the
\* construction fail.
ValueEqual(a, b) ==
    /\ a.sentence = b.sentence
    /\ a.embedding.val = b.embedding.val
    /\ a.probability = b.probability

C6_AbsentExemplarFails ==
    /\ (/\ cpc \in {"built", "both"}
        /\ \A k \in 1..Len(samples) : ~ValueEqual(samples[k], core_sample))
           => cluster.raised
    /\ (/\ cpc = "both"
        /\ \A k \in 1..Len(samples2) : ~ValueEqual(samples2[k], core_sample2))
           => cluster2.raised

C6_Witness ==
    /\ cpc = "built"
    /\ cluster.raised
    /\ \A k \in 1..Len(samples) : ~ValueEqual(samples[k], core_sample)
    /\ \E k \in 1..Len(samples) :
           /\ samples[k].sentence = core_sample.sentence
           /\ samples[k].embedding = core_sample.embedding
           /\ samples[k].probability # core_sample.probability

\* C7: a label none of whose points has the medoid's embedding makes the
\* call raise: it never reaches the sort or the return, and no Cluster is
\* made of that label's points.
Unmatched(l) ==
    \A p \in PointsLabelled(l) : embeddings[p].val # est_medoids[l + 1]

C7_UnmatchedMedoidAborts ==
    \A l \in 0..(label_range(labels) - 1) :
        Unmatched(l) =>
            /\ pc \notin {"sort", "done"}
            /\ \A c \in 1..Len(clusters) : PointsIn(clusters[c]) \cap PointsLabelled(l) = {}

C7_Witness ==
    /\ pc = "raised"
    /\ \E l \in 0..(label_range(labels) - 1) :
           Unmatched(l) /\ Cardinality(PointsLabelled(l)) >= 2
    /\ Len(clusters) >= 1

\* C8: the result holds, for every label, exactly one Cluster made of the
\* points of that label, with their raw strings, whose exemplar is a point
\* of the label with the medoid's embedding; and the worked example gives
\* {a}, {d}, {b, c} with exemplar c, and {e}.
ClustersOfLabel(l) ==
    {c \in 1..Len(clusters) : PointsIn(clusters[c]) \cap PointsLabelled(l) # {}}

IsExample ==
    data = ExampleData /\ labels = ExampleLabels /\ est_medoids = ExampleMedoids

C8_OneClusterPerLabel ==
    Returned =>
        /\ \A l \in 0..(label_range(labels) - 1) :
               /\ Cardinality(ClustersOfLabel(l)) = 1
               /\ \A c \in ClustersOfLabel(l) :
                      /\ PointsIn(clusters[c]) = PointsLabelled(l)
                      /\ Len(clusters[c].strings) = Cardinality(PointsLabelled(l))
                      /\ \A k \in 1..Len(clusters[c].strings) :
                             clusters[c].strings[k] = data[clusters[c].embeddings[k].id]
                      /\ clusters[c].embeddings[1].val = est_medoids[l + 1]
                      /\ core_string(clusters[c]) = data[clusters[c].embeddings[1].id]
        /\ IsExample =>
               [c \in 1..Len(clusters) |-> clusters[c].strings]
                   = << <<(<<1>>)>>, <<(<<3>>), (<<2>>)>>, <<(<<4>>)>>, <<(<<5>>)>> >>

C8_Witness == Returned /\ IsExample

\* C9: every noise point the loop has passed is a Cluster of its own:
\* one sentence, its raw string, probability 1.
C9_NoiseSingletons ==
    \A p \in NoisePoints :
        p < i =>
            Cardinality({c \in 1..Len(clusters) :
                /\ clusters[c].strings = <<data[p]>>
                /\ clusters[c].embeddings = <<embeddings[p]>>
                /\ clusters[c].probabilities = <<1>>
                /\ core_string(clusters[c]) = data[p]}) = 1

C9_Witness ==
    /\ Returned
    /\ \E p \in NoisePoints : probabilities[p] = 0 /\ labels[p] = -2
    /\ \E p \in NoisePoints : probabilities[p] = 1 /\ labels[p] = -1

\* C10: a batch of noise only returns one singleton per input occurrence.
C10_AllNoise ==
    (Returned /\ NoisePoints = DOMAIN data) =>
        /\ Len(clusters) = Len(data)
        /\ \A c \in 1..Len(clusters) : Len(clusters[c].strings) = 1
        /\ \A p \in DOMAIN data :
               Cardinality({c \in 1..Len(clusters) :
                   PointsIn(clusters[c]) = {p} /\ clusters[c].strings = <<data[p]>>}) = 1

C10_Witness ==
    /\ Returned
    /\ NoisePoints = DOMAIN data
    /\ Len(data) >= 2
    /\ \E p, q \in DOMAIN data : p # q /\ data[p] = data[q]

\* The sentences of a cluster in ascending order, whatever its exemplar is.
RECURSIVE SortedStrings(_)
SortedStrings(strs) ==
    IF strs = <<>> THEN <<>>
    ELSE LET rest == SortedStrings(SubSeq(strs, 1, Len(strs) - 1))
             x == strs[Len(strs)]
         IN  ListInsert(rest, Cardinality({k \in 1..Len(rest) : ~StrLt(x, rest[k])}), x)

\* The list the call held before its final sort (lines 213-225).
BeforeSort ==
    LET loc == LoopOver(InitLocals(labels), [p \in DOMAIN data |-> p])
    IN  ExtendFrom(loc.clusters, loc.groups, loc.medoids, 1).clusters

\* C11 as stated: the returned list is in ascending order when clusters are
\* compared by their sentences taken in sorted order.
C11_SortedBySortedSentences ==
    Returned =>
        \A a, b \in 1..Len(clusters) :
            a < b => ~TupleLt(SortedStrings(clusters[b].strings),
                              SortedStrings(clusters[a].strings))

\* C11 (amended): the returned list is in ascending order of Cluster.__lt__,
\* which compares the stored tuples (exemplar first, then the other
\* sentences in order): no later cluster is less than an earlier one.
C11_SortedByStoredSentences ==
    Returned =>
        \A a, b \in 1..Len(clusters) :
            a < b => ~ClusterLt(clusters[b], clusters[a])

C11_Witness ==
    /\ Returned
    /\ Len(clusters) >= 3
    /\ clusters # BeforeSort
    /\ \E c \in 1..Len(clusters) : ~Ascending(clusters[c].strings)

\* Place k (counted from 0) of a sequence of n items lies in [start, stop),
\* the bounds read as in slice notation.
InSlice(k, start, stop, n) ==
    /\ k \in 0..(n - 1)
    /\ IF start < 0 THEN k >= n + start ELSE k >= start
    /\ IF stop < 0 THEN k < n + stop ELSE k < stop

\* The places of the whole cluster that lie in the called range and hold
\* the called value.
Occurrences ==
    {k \in 0..(Len(cluster.strings) - 1) :
        /\ InSlice(k, called.start, called.stop, Len(cluster.strings))
        /\ cluster.strings[k + 1] = called.value}

RECURSIVE SplitLines(_)
SplitLines(text) ==
    IF \A k \in 1..Len(text) : text[k] # 10 THEN <<text>>
    ELSE LET nl == SetMin({k \in 1..Len(text) : text[k] = 10})
         IN  <<SubSeq(text, 1, nl - 1)>> \o SplitLines(SubSeq(text, nl + 1, Len(text)))

LongestSentence == SetMax({Len(cluster.strings[k]) : k \in 1..Len(cluster.strings)})

\* C19: describe() yields one line per sample, the sentence padded to the
\* longest sentence, and the marker '>' on the exemplar's line only.
C19_OneMarkedLine ==
    called.op = "describe" =>
        LET lines == SplitLines(returned.text)
        IN  /\ Len(lines) = Len(cluster.strings)
            /\ \A k \in 1..Len(lines) :
                   /\ Len(lines[k]) = LongestSentence + 12
                   /\ \A j \in 1..LongestSentence :
                          lines[k][2 + j] = IF j <= Len(cluster.strings[k])
                                            THEN cluster.strings[k][j] ELSE 32
                   /\ lines[k][1] = IF k = core_idx + 1 THEN 62 ELSE 45

Yielded == ppc = "yield"

IsPrepExample == raw = ExampleRaw

\* C16 as stated: the example comes out as 'Hello World'.
C16_ExampleWithoutComma ==
    (Yielded /\ IsPrepExample) =>
        cleaned = <<72, 101, 108, 108, 111, 32, 87, 111, 114, 108, 100>>

\* C16 (amended): the example comes out as 'Hello, World' (the comma inside
\* the text stays), and every output is the result of, in this order, the
\* replacements, the removal of pattern matches (each replaced by a space),
\* the trim of spaces and punctuation, the collapse of whitespace and the
\* removal of spaces before punctuation.
C16_StepsInOrder ==
    Yielded =>
        /\ cleaned =
               UnspacePunctuation(
                   PurgeSpaces(
                       strip(RemoveText(ReplaceText(raw, text_to_replace),
                                        text_to_remove),
                             {32} \cup Range(punctuation))),
                   punctuation)
        /\ IsPrepExample =>
               cleaned = <<72, 101, 108, 108, 111, 44, 32, 87, 111, 114, 108, 100>>

C16_Witness == Yielded /\ IsPrepExample

\* C17: no output starts or ends with whitespace or punctuation.
C17_CleanEdges ==
    (Yielded /\ cleaned # <<>>) =>
        /\ ~IsSpace(cleaned[1]) /\ cleaned[1] \notin Range(punctuation)
        /\ ~IsSpace(cleaned[Len(cleaned)])
        /\ cleaned[Len(cleaned)] \notin Range(punctuation)

\* The rows a cluster is due: one per member, the exemplar's (the first
\* place) not flagged, or only the exemplar's.
RowsOfCluster(c, level, dup) ==
    IF dup
    THEN [k \in 1..Len(c.strings) |->
             [level |-> level, question |-> c.strings[k], flag |-> k # 1]]
    ELSE <<[level |-> level, question |-> c.strings[1], flag |-> FALSE]>>

RECURSIVE ExpectedRows(_, _, _)
ExpectedRows(cls, level, dup) ==
    IF cls = <<>> THEN <<>>
    ELSE RowsOfCluster(Head(cls), level, dup) \o ExpectedRows(Tail(cls), level, dup)

HasLevel2(r) == r.level = BatchLevels[1]
HasLevel3(r) == r.level = BatchLevels[2]

\* The rows of batch b among the given rows.
RowsOfBatch(rows, b) ==
    IF b = 1 THEN SelectSeq(rows, HasLevel2) ELSE SelectSeq(rows, HasLevel3)

Exited == apc = "exit"

\* The batch taken last has all its rows written.
BatchDone == apc = "next" /\ batch >= 1 /\ pc = "done"

\* C12: clusterize_sentences is never called on an empty question list; an
\* empty list is skipped and the run goes on.
C12_EmptyGroupSkipped ==
    /\ pc # "idle" => data # <<>>
    /\ (batch >= 1 /\ data = <<>>) => exc # "error"

\* C13: a finished batch has, with include_duplicates, one row per member
\* of every cluster, flagged False on the exemplar's row only, len(input)
\* rows in all; without it, one unflagged row per cluster with the
\* exemplar's sentence.
C13_RowsPerBatch ==
    BatchDone =>
        LET rows == RowsOfBatch(file_rows, batch)
        IN  /\ rows = ExpectedRows(clusters, BatchLevels[batch], include_duplicates)
            /\ Len(rows) = IF include_duplicates THEN Len(data) ELSE Len(clusters)
            /\ Cardinality({k \in 1..Len(rows) : ~rows[k].flag}) = Len(clusters)

C13_Witness ==
    /\ BatchDone
    /\ include_duplicates
    /\ batch = 2
    /\ \E c \in 1..Len(clusters) : Len(clusters[c].strings) >= 2

\* C14: an interruption stops the run at a batch boundary only: every batch
\* taken is finished and the output holds whole batches.
C14_StopsAtBatchBoundary ==
    (Exited /\ exc = "interrupt") =>
        /\ batch = Len(finished)
        /\ \A b \in 1..batch :
               RowsOfBatch(disk_rows, b)
                   = ExpectedRows(finished[b], BatchLevels[b], include_duplicates)

\* C15: once the file was opened, analyze() exits with the file closed and
\* every row written so far, so every row of every finished batch, on disk.
C15_ClosedWithFinishedRows ==
    (Exited /\ csvfile # "none") =>
        /\ csvfile = "closed"
        /\ disk_rows = file_rows
        /\ \A b \in 1..Len(finished) :
               RowsOfBatch(disk_rows, b)
                   = ExpectedRows(finished[b], BatchLevels[b], include_duplicates)

C15_Witness ==
    /\ Exited
    /\ exc = "interrupt"
    /\ Len(finished) = 1 /\ batch = 2
    /\ finished[1] # <<>>
    /\ RowsOfBatch(disk_rows, 2) # <<>>

\* C20: stop() never fails on an attribute the scanner thread has reset to
\* None, and it returns only when the scanner thread has ended.
C20_StopNeverFails ==
    /\ mpc # "failed"
    /\ mpc = "done" => tpc = "ended"

\* C21: once the scanner thread has ended, however scan() was left,
\* is_running is False: the polling loop ends and start() can run again.
C21_EndedMeansNotRunning == tpc = "ended" => ~is_running

\* scan() has been left, by return or by an exception.
Left == tpc \in {"reset_thread", "reset_event", "reset_running", "ended"}

\* scan() got as far as loading the stored questions (line 192).
Loaded == topic >= 1

\* The list holds exactly the members of the set, in ascending order.
ListOfSet(list, set) ==
    /\ Range(list) = set
    /\ \A k \in 1..(Len(list) - 1) : list[k] < list[k + 1]

\* C22: once the stored questions are loaded, scan() is left with exactly
\* one save made, and the file holds every question of the dictionary, so
\* every question of every successful attempt; no save happens earlier.
C22_SavedOnceOnExit ==
    /\ (Loaded /\ Left) =>
           /\ saved = 1
           /\ DOMAIN saved_file = DOMAIN questions
           /\ \A t \in DOMAIN questions :
                  /\ ListOfSet(saved_file[t].q1, questions[t].q1)
                  /\ ListOfSet(saved_file[t].q2, questions[t].q2)
                  /\ ListOfSet(saved_file[t].q3, questions[t].q3)
                  /\ recorded[t] > 0 => saved_file[t].q1 # <<>>
    /\ (Loaded /\ ~Left) => saved = 0
    /\ ~Loaded => saved = 0

C22_Witness ==
    /\ Loaded /\ Left
    /\ scan_raised
    /\ \E t \in DOMAIN recorded : recorded[t] >= 1 /\ Len(saved_file[t].q1) = 2

\* C23: a record attempt starts only from the test of the stop event, with
\* the event not set; once the event is set and no attempt is in progress,
\* no attempt is made and nothing is recorded any more, for any topic.
C23_StopCheckedBeforeAttempt ==
    [][/\ (tpc # "record" /\ tpc' = "record") => (tpc = "is_set" /\ ~event_set)
       /\ (event_set /\ tpc \notin {"idle", "record"}) =>
              /\ tpc' # "record"
              /\ UNCHANGED <<attempts, recorded, questions>>]_vars

C23_Witness ==
    /\ event_set
    /\ tpc = "save"
    /\ ~scan_raised
    /\ topic < n_topics
    /\ attempts >= 1

\* C24: the loops leave a topic only with times_per_topic successful
\* attempts made for it; an attempt that fails is counted as no success
\* and leaves every set alone; a success adds one question to each of the
\* three sets of the topic at once.
C24_SuccessesPerTopic ==
    [][/\ (topic >= 1 /\ topic' > topic) => recorded[topic] = times_per_topic
       /\ attempts' # attempts =>
              /\ success_times' = success_times
              /\ UNCHANGED <<questions, recorded>>
       /\ (topic >= 1 /\ questions' # questions) =>
              /\ recorded' = [recorded EXCEPT ![topic] = @ + 1]
              /\ success_times' = success_times + 1
              /\ \A t \in DOMAIN questions : t # topic => questions'[t] = questions[t]
              /\ \E q \in ShownQuestions :
                     /\ questions'[topic].q1 = questions[topic].q1 \cup {q[1]}
                     /\ questions'[topic].q2 = questions[topic].q2 \cup {q[2]}
                     /\ questions'[topic].q3 = questions[topic].q3 \cup {q[3]}]_vars

C24_Witness ==
    /\ topic = 2
    /\ n_topics >= 2
    /\ times_per_topic = 2
    /\ attempts >= 2
    /\ recorded[1] = 2

\* C25: with no removable pattern the removal step changes nothing: the
\* output is that of the other four steps, and no space comes between
\* characters that were adjacent in the input.
C25_EmptyRemovalChangesNothing ==
    (Yielded /\ text_to_remove = <<>>) =>
        cleaned =
            UnspacePunctuation(
                PurgeSpaces(strip(ReplaceText(raw, text_to_replace),
                                  {32} \cup Range(punctuation))),
                punctuation)

\* ---- query
\* The row is original: its flag reads 'false' in any mix of cases.
FlagIsFalse(row) ==
    /\ Len(row[Len(row)]) = 5
    /\ \A k \in 1..5 : row[Len(row)][k] \in {FalseText[k], FalseText[k] - 32}

\* The predefined file holds, for the columns of this input row, an answer
\* that is not the empty string.
HasNonEmptyPredefined(row) ==
    \E j \in DOMAIN predefined_file :
        /\ <<predefined_file[j][1]>> = <<row[1]>>
        /\ predefined_file[j][3] # <<>>

\* The same with an answer that has a character other than whitespace.
HasNonBlankPredefined(row) ==
    \E j \in DOMAIN predefined_file :
        /\ <<predefined_file[j][1]>> = <<row[1]>>
        /\ \E k \in DOMAIN predefined_file[j][3] :
              ~IsSpace(predefined_file[j][3][k])

CountSum == count_predefined + count_queried + count_queried_err + count_ignored

====
